---- MODULE Spec2Model ----
(***************************************************************************)
(* Package xerr: run executes one fallible operation against a shared      *)
(* *error slot with fail-fast short-circuit and observing middleware;      *)
(* NewGlobalError binds a context and a middleware list into a reusable    *)
(* runner.                                                                 *)
(*                                                                         *)
(* One execution of the package ("world") is a record                      *)
(*   slot  : the caller's error variables (the ErrorSlots), by name        *)
(*   frame : the activation record of the run call in progress             *)
(*   trace : every call and return of an operation or a middleware, in     *)
(*           the order they happened (what the tests' closures record)     *)
(* The variable sys is the execution under study.  ref is a second         *)
(* execution used by the specifications that compare two executions; it    *)
(* does not move under Spec.  The caller holds its context ctx0, its       *)
(* middleware list mids0, its runner, and the record calls of the calls it *)
(* issued; slot0 is what its error variables held at first.  built is the  *)
(* closure as NewGlobalError returned it, and out is what LoggerMiddleware *)
(* printed.                                                                *)
(***************************************************************************)
EXTENDS Integers, Sequences, FiniteSets, TLC

VARIABLES ctx0, mids0, slot0, runner, calls, sys, ref, built, out

vars == <<ctx0, mids0, slot0, runner, calls, sys, ref, built, out>>

(* ------------------------------ bounds --------------------------------- *)

\* number of run / runner calls the caller issues in one behaviour
MaxCalls == 3

(* ------------------------------ values --------------------------------- *)

\* the nil error
Nil == <<>>

\* errors.New is called afresh by every operation: the error the operation
\* of the n-th call returns is a value of its own
NewError(n) == <<"err", n>>

\* an error the caller stored in a slot before the first call
\* (err := firstErr in TestRun_ShortCircuit)
firstErr == <<"err", 0>>

\* the error maliciousMid assigns to its own parameter
modifiedErr(n) == <<"modified", n>>

\* the caller's error variables
Slots == {"err1", "err2"}

\* the labels (tip) the caller passes
Tips == {"operation 1", "operation 2"}

\* the operations (fn) the caller passes: one that returns nil and one that
\* returns a new error
Fns == {"succeed", "fail"}

\* the contexts the caller works with
Ctxs == {"ctxA", "ctxB"}

\* the middleware lists the caller works with
MidLists == { <<>>,
              <<"mid1">>,
              <<"mid2", "mid1">>,
              <<"maliciousMid", "mid1">> }

\* the middlewares the lists are made of
MidNames == { "mid1", "mid2", "maliciousMid" }

NoRunner == [bound |-> FALSE, ctx |-> "", mids |-> <<>>, shared |-> FALSE]

(* --------------------------- the operation ----------------------------- *)

\* e := fn(ctx): what the operation of the n-th call returns
FnResult(fn, n) == IF fn = "fail" THEN NewError(n) ELSE Nil

(* --------------------------- the middleware ---------------------------- *)

\* The body of a middleware, acting on its own parameter err.  The recording
\* middlewares leave it alone; maliciousMid assigns a new error to it.
MidBody(mid, err, n) == IF mid = "maliciousMid" THEN modifiedErr(n) ELSE err

\* e handed to the middleware by reference: its assignment reaches run's e
AfterMid_ByReference(e, arg) == arg

\* mid(ctx, e, tip) passes e by value: whatever the middleware did to its
\* parameter, run's e is what it was
AfterMid(e, arg) == e

(* ------------------------------- run ----------------------------------- *)

Idle == [pc |-> "idle", n |-> 0, ctx |-> "", err |-> "", tip |-> "",
         fn |-> "", mids |-> <<>>, e |-> Nil, i |-> 0, arg |-> Nil]

Event(n, ev, who, ctx, err, tip) ==
    [n |-> n, ev |-> ev, who |-> who, ctx |-> ctx, err |-> err, tip |-> tip]

\* run(ctx, err, tip, fn, mids...): the call, as the n-th call of the caller
run(w, n, ctx, err, tip, fn, mids) ==
    [w EXCEPT !.frame = [pc |-> "check", n |-> n, ctx |-> ctx, err |-> err,
                         tip |-> tip, fn |-> fn, mids |-> mids,
                         e |-> Nil, i |-> 0, arg |-> Nil]]

\* run without its short-circuit: the operation runs whatever the slot holds
run_check_NeverSkips(w) == [w EXCEPT !.frame.pc = "fn"]

\* run with the test of the short-circuit inverted (*err == nil)
run_check_Inverted(w) ==
    IF w.slot[w.frame.err] = Nil
    THEN [w EXCEPT !.frame = Idle]
    ELSE [w EXCEPT !.frame.pc = "fn"]

\* run notifying the middlewares of a step it skips, with the held error
run_check_NotifiesOnSkip(w) ==
    IF w.slot[w.frame.err] # Nil
    THEN [w EXCEPT !.frame.e = w.slot[w.frame.err],
                   !.frame.i = 1,
                   !.frame.pc = "mids"]
    ELSE [w EXCEPT !.frame.pc = "fn"]

\* if *err != nil { return }
run_check(w) ==
    IF w.slot[w.frame.err] # Nil
    THEN [w EXCEPT !.frame = Idle]
    ELSE [w EXCEPT !.frame.pc = "fn"]

\* the operation handed context.Background() in place of ctx
run_fn_call_Background(w) ==
    LET f == w.frame IN
    [w EXCEPT !.trace = Append(@, Event(f.n, "call", "fn", "background", Nil, "")),
              !.frame.pc = "fn_ret"]

\* e := fn(ctx), the call
run_fn_call(w) ==
    LET f == w.frame IN
    [w EXCEPT !.trace = Append(@, Event(f.n, "call", "fn", f.ctx, Nil, "")),
              !.frame.pc = "fn_ret"]

\* the error stored as soon as the operation returns, before the loop
run_fn_ret_StoresFirst(w) ==
    LET f == w.frame
        r == FnResult(f.fn, f.n) IN
    [w EXCEPT !.trace = Append(@, Event(f.n, "ret", "fn", f.ctx, r, "")),
              !.slot[f.err] = IF r # Nil THEN r ELSE @,
              !.frame.e = r,
              !.frame.i = 1,
              !.frame.pc = "mids"]

\* e := fn(ctx), the return
run_fn_ret(w) ==
    LET f == w.frame
        r == FnResult(f.fn, f.n) IN
    [w EXCEPT !.trace = Append(@, Event(f.n, "ret", "fn", f.ctx, r, "")),
              !.frame.e = r,
              !.frame.i = 1,
              !.frame.pc = "mids"]

\* the loop walking mids from its last element to its first
run_mid_call_Backwards(w) ==
    LET f == w.frame
        k == Len(f.mids) + 1 - f.i IN
    [w EXCEPT !.trace = Append(@, Event(f.n, "call", f.mids[k], f.ctx, f.e, f.tip)),
              !.frame.arg = f.e,
              !.frame.pc = "mid_ret"]

\* the middleware handed *err, the slot, in place of e
run_mid_call_PassesSlot(w) ==
    LET f == w.frame IN
    [w EXCEPT !.trace = Append(@, Event(f.n, "call", f.mids[f.i], f.ctx,
                                        w.slot[f.err], f.tip)),
              !.frame.arg = w.slot[f.err],
              !.frame.pc = "mid_ret"]

\* for _, mid := range mids { mid(ctx, e, tip) }: the call of the next one
run_mid_call(w) ==
    LET f == w.frame IN
    [w EXCEPT !.trace = Append(@, Event(f.n, "call", f.mids[f.i], f.ctx, f.e, f.tip)),
              !.frame.arg = f.e,
              !.frame.pc = "mid_ret"]

\* the loop stepping over the middleware that follows the one that returned
run_mid_ret_SkipsNext(w) ==
    LET f == w.frame
        a == MidBody(f.mids[f.i], f.arg, f.n) IN
    [w EXCEPT !.trace = Append(@, Event(f.n, "ret", f.mids[f.i], f.ctx, a, f.tip)),
              !.frame.e = f.e,
              !.frame.arg = Nil,
              !.frame.i = f.i + 2,
              !.frame.pc = "mids"]

\* the middleware runs and returns; the loop moves on
run_mid_ret(w) ==
    LET f == w.frame
        a == MidBody(f.mids[f.i], f.arg, f.n) IN
    [w EXCEPT !.trace = Append(@, Event(f.n, "ret", f.mids[f.i], f.ctx, a, f.tip)),
              !.frame.e = AfterMid(f.e, a),
              !.frame.arg = Nil,
              !.frame.i = f.i + 1,
              !.frame.pc = "mids"]

\* the error stored wrapped with the label (fmt.Errorf("%s: %w", tip, e))
run_store_Wrapped(w) ==
    LET f == w.frame IN
    [w EXCEPT !.slot[f.err] = IF f.e # Nil THEN <<"wrapped", f.tip, f.e>> ELSE @,
              !.frame = Idle]

\* the store placed inside the loop over mids: with no middleware there is
\* no store
run_store_InsideLoop(w) ==
    LET f == w.frame IN
    [w EXCEPT !.slot[f.err] = IF f.e # Nil /\ Len(f.mids) > 0 THEN f.e ELSE @,
              !.frame = Idle]

\* the store guarded by a second test of the slot: a held error is kept
run_store_KeepsHeld(w) ==
    LET f == w.frame IN
    [w EXCEPT !.slot[f.err] = IF f.e # Nil /\ @ = Nil THEN f.e ELSE @,
              !.frame = Idle]

\* if e != nil { *err = e }, and run returns
run_store(w) ==
    LET f == w.frame IN
    [w EXCEPT !.slot[f.err] = IF f.e # Nil THEN f.e ELSE @,
              !.frame = Idle]

(* --------------------------- NewGlobalError ---------------------------- *)

\* NewGlobalError(ctx, mids...): the closure, which captures ctx and the slice
\* mids.  Called as NewGlobalError(ctx, m1, m2) the slice is a new one; called
\* as NewGlobalError(ctx, list...) it is the caller's list itself, passed
\* unchanged, and shares its array (shared).
NewGlobalErrorClosure(ctx, mids, shared) ==
    [bound |-> TRUE, ctx |-> ctx, mids |-> mids, shared |-> shared]

\* the closure calling run without the captured middlewares
runner_call_DropsMids(w, r, n, err, tip, fn) == run(w, n, r.ctx, err, tip, fn, <<>>)

\* a runner that remembers that an operation it ran has failed, and from
\* then on skips every call, whatever slot it is given
runner_call_RemembersFailure(w, r, n, err, tip, fn) ==
    IF \E i \in 1..Len(w.trace) :
          w.trace[i].who = "fn" /\ w.trace[i].ev = "ret" /\ w.trace[i].err # Nil
    THEN w
    ELSE run(w, n, r.ctx, err, tip, fn, r.mids)

\* the closure called: run(ctx, err, tip, fn, mids...)
runner_call(w, r, n, err, tip, fn) == run(w, n, r.ctx, err, tip, fn, r.mids)

(* ------------------------------ the caller ----------------------------- *)

World(s) == [slot |-> s, frame |-> Idle, trace |-> <<>>]

\* The caller has its context and its middlewares, has obtained its runner
\* from NewGlobalError, and has declared its error variables, empty or
\* holding firstErr.
Init ==
    /\ ctx0 \in Ctxs
    /\ mids0 \in MidLists
    /\ slot0 \in [Slots -> {Nil, firstErr}]
    /\ runner = NewGlobalErrorClosure(ctx0, mids0, FALSE)
    /\ built = runner
    /\ out = <<>>
    /\ calls = <<>>
    /\ sys = World(slot0)
    /\ ref = World(slot0)

\* one entry of the caller's record of the calls it issued: the slot, the
\* label and the operation passed, and what the slot held when it called
Call(err, tip, fn, pre) == [err |-> err, tip |-> tip, fn |-> fn, pre |-> pre]

\* the caller calls run(ctx, &err, tip, fn, mids...)
DirectCall ==
    /\ sys.frame.pc = "idle"
    /\ Len(calls) < MaxCalls
    /\ \E err \in Slots, tip \in Tips, fn \in Fns :
          /\ calls' = Append(calls, Call(err, tip, fn, sys.slot[err]))
          /\ sys' = run(sys, Len(calls) + 1, ctx0, err, tip, fn, mids0)
    /\ UNCHANGED <<built, out, ctx0, mids0, slot0, runner, ref>>

\* the caller calls runner(&err, tip, fn)
BoundCall ==
    /\ sys.frame.pc = "idle"
    /\ Len(calls) < MaxCalls
    /\ \E err \in Slots, tip \in Tips, fn \in Fns :
          /\ calls' = Append(calls, Call(err, tip, fn, sys.slot[err]))
          /\ sys' = runner_call(sys, runner, Len(calls) + 1, err, tip, fn)
    /\ UNCHANGED <<built, out, ctx0, mids0, slot0, runner, ref>>

Check ==
    /\ sys.frame.pc = "check"
    /\ sys' = run_check(sys)
    /\ UNCHANGED <<built, out, ctx0, mids0, slot0, runner, calls, ref>>

FnCall ==
    /\ sys.frame.pc = "fn"
    /\ sys' = run_fn_call(sys)
    /\ UNCHANGED <<built, out, ctx0, mids0, slot0, runner, calls, ref>>

FnRet ==
    /\ sys.frame.pc = "fn_ret"
    /\ sys' = run_fn_ret(sys)
    /\ UNCHANGED <<built, out, ctx0, mids0, slot0, runner, calls, ref>>

MidCall ==
    /\ sys.frame.pc = "mids"
    /\ sys.frame.i <= Len(sys.frame.mids)
    /\ sys' = run_mid_call(sys)
    /\ UNCHANGED <<built, out, ctx0, mids0, slot0, runner, calls, ref>>

MidRet ==
    /\ sys.frame.pc = "mid_ret"
    /\ sys' = run_mid_ret(sys)
    /\ UNCHANGED <<built, out, ctx0, mids0, slot0, runner, calls, ref>>

Store ==
    /\ sys.frame.pc = "mids"
    /\ sys.frame.i > Len(sys.frame.mids)
    /\ sys' = run_store(sys)
    /\ UNCHANGED <<built, out, ctx0, mids0, slot0, runner, calls, ref>>

Next ==
    \/ DirectCall
    \/ BoundCall
    \/ Check
    \/ FnCall
    \/ FnRet
    \/ MidCall
    \/ MidRet
    \/ Store

Spec == Init /\ [][Next]_vars

(* ------------------- every call through the runner -------------------- *)

NextRunner ==
    \/ BoundCall
    \/ Check
    \/ FnCall
    \/ FnRet
    \/ MidCall
    \/ MidRet
    \/ Store

SpecRunner == Init /\ [][NextRunner]_vars

(* ----------------------- two executions side by side ------------------ *)

\* number of calls issued to each of two executions compared side by side
MaxPairCalls == 2

\* a run call is in progress in w
Busy(w) == w.frame.pc # "idle"

\* the next step of the run call in progress in w
Step(w) ==
    CASE w.frame.pc = "check"   -> run_check(w)
      [] w.frame.pc = "fn"      -> run_fn_call(w)
      [] w.frame.pc = "fn_ret"  -> run_fn_ret(w)
      [] w.frame.pc = "mids"    -> IF w.frame.i <= Len(w.frame.mids)
                                   THEN run_mid_call(w)
                                   ELSE run_store(w)
      [] w.frame.pc = "mid_ret" -> run_mid_ret(w)
      [] OTHER                  -> w

\* both executions take the next step of their call
PairStep ==
    /\ Busy(sys) \/ Busy(ref)
    /\ sys' = Step(sys)
    /\ ref' = Step(ref)
    /\ UNCHANGED <<built, out, ctx0, mids0, slot0, runner, calls>>

\* the same run call issued in both executions, but for the label
LabelCall ==
    /\ ~Busy(sys) /\ ~Busy(ref)
    /\ Len(calls) < MaxPairCalls
    /\ \E err \in Slots, tip \in Tips, tip2 \in Tips, fn \in Fns :
          /\ calls' = Append(calls, Call(err, tip, fn, sys.slot[err]))
          /\ sys' = run(sys, Len(calls) + 1, ctx0, err, tip, fn, mids0)
          /\ ref' = run(ref, Len(calls) + 1, ctx0, err, tip2, fn, mids0)
    /\ UNCHANGED <<built, out, ctx0, mids0, slot0, runner>>

NextLabel == LabelCall \/ PairStep

SpecLabel == Init /\ [][NextLabel]_vars

\* the same run call issued in both executions, in ref without middlewares
NoMidsCall ==
    /\ ~Busy(sys) /\ ~Busy(ref)
    /\ Len(calls) < MaxPairCalls
    /\ \E err \in Slots, tip \in Tips, fn \in Fns :
          /\ calls' = Append(calls, Call(err, tip, fn, sys.slot[err]))
          /\ sys' = run(sys, Len(calls) + 1, ctx0, err, tip, fn, mids0)
          /\ ref' = run(ref, Len(calls) + 1, ctx0, err, tip, fn, <<>>)
    /\ UNCHANGED <<built, out, ctx0, mids0, slot0, runner>>

NextNoMids == NoMidsCall \/ PairStep

SpecNoMids == Init /\ [][NextNoMids]_vars

\* the caller before it has obtained a runner
InitBound ==
    /\ ctx0 \in Ctxs
    /\ mids0 \in MidLists
    /\ slot0 \in [Slots -> {Nil, firstErr}]
    /\ runner = NoRunner
    /\ built = NoRunner
    /\ out = <<>>
    /\ calls = <<>>
    /\ sys = World(slot0)
    /\ ref = World(slot0)

\* runner := NewGlobalError(ctx, mids...), in the execution that uses it
NewGlobalError ==
    /\ ~Busy(sys) /\ ~Busy(ref)
    /\ ~runner.bound
    /\ runner' = NewGlobalErrorClosure(ctx0, mids0, FALSE)
    /\ built' = runner'
    /\ UNCHANGED <<out, ctx0, mids0, slot0, calls, sys, ref>>

\* the same call issued as runner(&err, tip, fn) in sys and as
\* run(ctx, &err, tip, fn, mids...) in ref
BoundVsDirectCall ==
    /\ ~Busy(sys) /\ ~Busy(ref)
    /\ runner.bound
    /\ Len(calls) < MaxPairCalls
    /\ \E err \in Slots, tip \in Tips, fn \in Fns :
          /\ calls' = Append(calls, Call(err, tip, fn, sys.slot[err]))
          /\ sys' = runner_call(sys, runner, Len(calls) + 1, err, tip, fn)
          /\ ref' = run(ref, Len(calls) + 1, ctx0, err, tip, fn, mids0)
    /\ UNCHANGED <<built, out, ctx0, mids0, slot0, runner>>

NextBound == NewGlobalError \/ BoundVsDirectCall \/ PairStep

SpecBound == InitBound /\ [][NextBound]_vars

(* ------------------ the caller changing what it passed ----------------- *)

\* number of runner calls the caller issues when it also changes its list
MaxListCalls == 2

\* list[p] = m: the store into the caller's list
StoreElem(list, p, m) == [list EXCEPT ![p] = m]

\* list[p] = m as the closure r sees it: the slice it captured is the caller's
\* list itself when it was passed as list..., and then the store is a store
\* into the array the closure reads; a slice of its own is out of reach
StoreSeenBy(r, p, m) ==
    IF r.bound /\ r.shared THEN [r EXCEPT !.mids = StoreElem(@, p, m)] ELSE r

InitList ==
    /\ ctx0 \in Ctxs
    /\ mids0 \in MidLists
    /\ slot0 = [s \in Slots |-> Nil]
    /\ runner = NoRunner
    /\ built = NoRunner
    /\ out = <<>>
    /\ calls = <<>>
    /\ sys = World(slot0)
    /\ ref = World(slot0)

\* runner := NewGlobalError(ctx, list...) or NewGlobalError(ctx, list[0], ...)
ListNewGlobalError ==
    /\ ~Busy(sys)
    /\ ~runner.bound
    /\ \E shared \in BOOLEAN :
          runner' = NewGlobalErrorClosure(ctx0, mids0, shared)
    /\ built' = runner'
    /\ UNCHANGED <<out, ctx0, mids0, slot0, calls, sys, ref>>

\* the caller, holding its runner, assigns to an element of its list
SetElem ==
    /\ ~Busy(sys)
    /\ runner.bound
    /\ \E p \in 1..Len(mids0), m \in MidNames :
          /\ mids0[p] # m
          /\ mids0' = StoreElem(mids0, p, m)
          /\ runner' = StoreSeenBy(runner, p, m)
    /\ UNCHANGED <<built, out, ctx0, slot0, calls, sys, ref>>

\* the caller, holding its runner, assigns another context to its variable ctx
RebindCtx ==
    /\ ~Busy(sys)
    /\ runner.bound
    /\ \E c \in Ctxs : c # ctx0 /\ ctx0' = c
    /\ UNCHANGED <<built, out, mids0, slot0, runner, calls, sys, ref>>

\* the caller calls runner(&err, tip, fn)
ListBoundCall ==
    /\ ~Busy(sys)
    /\ runner.bound
    /\ Len(calls) < MaxListCalls
    /\ \E err \in Slots, tip \in Tips, fn \in Fns :
          /\ calls' = Append(calls, Call(err, tip, fn, sys.slot[err]))
          /\ sys' = runner_call(sys, runner, Len(calls) + 1, err, tip, fn)
    /\ UNCHANGED <<built, out, ctx0, mids0, slot0, runner, ref>>

NextList ==
    \/ ListNewGlobalError
    \/ SetElem
    \/ RebindCtx
    \/ ListBoundCall
    \/ Check
    \/ FnCall
    \/ FnRet
    \/ MidCall
    \/ MidRet
    \/ Store

SpecList == InitList /\ [][NextList]_vars

(* ------------------------ the context of a call ------------------------ *)

\* number of calls the caller issues when it also changes its context
MaxCtxCalls == 2

\* The caller has obtained its runner and declared its error variables.
InitCtx ==
    /\ ctx0 \in Ctxs
    /\ mids0 \in MidLists
    /\ slot0 = [s \in Slots |-> Nil]
    /\ runner = NewGlobalErrorClosure(ctx0, mids0, FALSE)
    /\ built = runner
    /\ out = <<>>
    /\ calls = <<>>
    /\ sys = World(slot0)
    /\ ref = World(slot0)

\* an entry of the caller's record of its calls that also tells how the call
\* was made and the context the call was given: the argument ctx of run, or
\* the argument ctx of NewGlobalError for a call of the runner
CallWith(err, tip, fn, pre, via, ctx) ==
    [err |-> err, tip |-> tip, fn |-> fn, pre |-> pre, via |-> via, ctx |-> ctx]

\* the caller calls run(ctx, &err, tip, fn, mids...) with its present context
CtxDirectCall ==
    /\ ~Busy(sys)
    /\ Len(calls) < MaxCtxCalls
    /\ \E err \in Slots, tip \in Tips, fn \in Fns :
          /\ calls' = Append(calls, CallWith(err, tip, fn, sys.slot[err], "run", ctx0))
          /\ sys' = run(sys, Len(calls) + 1, ctx0, err, tip, fn, mids0)
    /\ UNCHANGED <<built, out, ctx0, mids0, slot0, runner, ref>>

\* the caller calls runner(&err, tip, fn)
CtxBoundCall ==
    /\ ~Busy(sys)
    /\ Len(calls) < MaxCtxCalls
    /\ \E err \in Slots, tip \in Tips, fn \in Fns :
          /\ calls' = Append(calls, CallWith(err, tip, fn, sys.slot[err], "runner",
                                             built.ctx))
          /\ sys' = runner_call(sys, runner, Len(calls) + 1, err, tip, fn)
    /\ UNCHANGED <<built, out, ctx0, mids0, slot0, runner, ref>>

NextCtx ==
    \/ RebindCtx
    \/ CtxDirectCall
    \/ CtxBoundCall
    \/ Check
    \/ FnCall
    \/ FnRet
    \/ MidCall
    \/ MidRet
    \/ Store

SpecCtx == InitCtx /\ [][NextCtx]_vars

(* ------------------ two goroutines sharing one slot -------------------- *)

\* Two goroutines each make one run call on the same, empty error variable.
\* sys holds the frame and the trace of the first, ref those of the second;
\* the error variables are shared memory, so both records hold the same slot.
InitRace ==
    /\ ctx0 \in Ctxs
    /\ mids0 \in MidLists
    /\ slot0 = [s \in Slots |-> Nil]
    /\ runner = NewGlobalErrorClosure(ctx0, mids0, FALSE)
    /\ built = runner
    /\ out = <<>>
    /\ calls = <<>>
    /\ sys = World(slot0)
    /\ ref = World(slot0)

\* go run(ctx, &err, tip1, fn1, mids...); go run(ctx, &err, tip2, fn2, mids...)
RaceStart ==
    /\ calls = <<>>
    /\ \E err \in Slots, tip1 \in Tips, tip2 \in Tips, fn1 \in Fns, fn2 \in Fns :
          /\ calls' = << Call(err, tip1, fn1, sys.slot[err]),
                         Call(err, tip2, fn2, sys.slot[err]) >>
          /\ sys' = run(sys, 1, ctx0, err, tip1, fn1, mids0)
          /\ ref' = run(ref, 2, ctx0, err, tip2, fn2, mids0)
    /\ UNCHANGED <<built, out, ctx0, mids0, slot0, runner>>

\* the first goroutine takes the next step of its call
RaceStep1 ==
    /\ Busy(sys)
    /\ sys' = Step(sys)
    /\ ref' = [ref EXCEPT !.slot = sys'.slot]
    /\ UNCHANGED <<built, out, ctx0, mids0, slot0, runner, calls>>

\* the second goroutine takes the next step of its call
RaceStep2 ==
    /\ Busy(ref)
    /\ ref' = Step(ref)
    /\ sys' = [sys EXCEPT !.slot = ref'.slot]
    /\ UNCHANGED <<built, out, ctx0, mids0, slot0, runner, calls>>

NextRace == RaceStart \/ RaceStep1 \/ RaceStep2

SpecRace == InitRace /\ [][NextRace]_vars

(* ------------------ run under a scheduler that is fair ----------------- *)

\* the number of calls the caller makes when termination is checked
MaxLiveCalls == 2

\* the caller calls run(ctx, &err, tip, fn, mids...)
LiveCall ==
    /\ sys.frame.pc = "idle"
    /\ Len(calls) < MaxLiveCalls
    /\ \E err \in Slots, tip \in Tips, fn \in Fns :
          /\ calls' = Append(calls, Call(err, tip, fn, sys.slot[err]))
          /\ sys' = run(sys, Len(calls) + 1, ctx0, err, tip, fn, mids0)
    /\ UNCHANGED <<built, out, ctx0, mids0, slot0, runner, ref>>

NextLive ==
    \/ LiveCall
    \/ Check
    \/ FnCall
    \/ FnRet
    \/ MidCall
    \/ MidRet
    \/ Store

\* run is straight-line code on the calling goroutine: a statement that can
\* be executed is executed, and the operation and the middlewares return
RunProceeds ==
    /\ WF_vars(Check)
    /\ WF_vars(FnCall)
    /\ WF_vars(FnRet)
    /\ WF_vars(MidCall)
    /\ WF_vars(MidRet)
    /\ WF_vars(Store)

SpecLive == Init /\ [][NextLive]_vars /\ RunProceeds

(* -------------------- LoggerMiddleware, getTraceID --------------------- *)

\* the number of calls of getTraceID and LoggerMiddleware the caller makes
MaxLogCalls == 2

\* a context key or value: its dynamic type and its value, printed
Typed(type, val) == [type |-> type, val |-> val]

\* context.Background()
Background == <<>>

\* context.WithValue(parent, key, val): the innermost pair is the last one
WithValue(parent, key, val) == Append(parent, [key |-> key, val |-> val])

\* the untyped constant "trace_id" of getTraceID, a string
TraceKey == Typed("string", "trace_id")

\* the contexts of the tests, and contexts with another key, with a key of
\* another type, and with a pair that shadows an outer one
LogCtxs ==
    { Background,
      WithValue(Background, TraceKey, Typed("string", "abc-123")),
      WithValue(Background, TraceKey, Typed("int", "123")),
      WithValue(Background, Typed("string", "user_id"), Typed("string", "abc-123")),
      WithValue(Background, Typed("ctxKey", "trace_id"), Typed("string", "abc-123")),
      WithValue(WithValue(Background, TraceKey, Typed("string", "abc-123")),
                TraceKey, Typed("int", "123")),
      WithValue(WithValue(Background, TraceKey, Typed("int", "123")),
                TraceKey, Typed("string", "test-trace-123")) }

\* what ctx.Value returns when no pair has the key: the nil interface
NoValue == Typed("nil", "<nil>")

\* ctx.Value(key): the value of the innermost pair whose key equals key
RECURSIVE Value(_, _)
Value(ctx, key) ==
    IF ctx = <<>> THEN NoValue
    ELSE IF ctx[Len(ctx)].key = key THEN ctx[Len(ctx)].val
    ELSE Value(SubSeq(ctx, 1, Len(ctx) - 1), key)

\* getTraceID without the type assertion: whatever the key holds is printed
getTraceID_AnyType(ctx) ==
    LET v == Value(ctx, TraceKey) IN
    IF v # NoValue THEN v.val ELSE "unknown"

\* getTraceID(ctx)
getTraceID(ctx) ==
    LET v == Value(ctx, TraceKey) IN
    IF v.type = "string" THEN v.val ELSE "unknown"

\* err.Error(), which %v prints
ErrorText(err) == IF err = Nil THEN "<nil>" ELSE "test error"

\* LoggerMiddleware(ctx, err, tip): the line it prints, as the pieces of its
\* format with the verbs replaced by the arguments ("+" stands for the check
\* mark of the success line and "-" for the cross of the failure line)
LoggerMiddleware(ctx, err, tip) ==
    IF err = Nil
    THEN << "+[", getTraceID(ctx), "] ", tip, "\n" >>
    ELSE << "-[", getTraceID(ctx), "] ", tip, ": ", ErrorText(err), "\n" >>

InitLog ==
    /\ ctx0 = "ctxA"
    /\ mids0 = <<>>
    /\ slot0 = [s \in Slots |-> Nil]
    /\ runner = NoRunner
    /\ built = NoRunner
    /\ out = <<>>
    /\ calls = <<>>
    /\ sys = World(slot0)
    /\ ref = World(slot0)

\* traceID := getTraceID(ctx)
GetTraceIDCall ==
    /\ Len(calls) < MaxLogCalls
    /\ \E ctx \in LogCtxs :
          calls' = Append(calls, [fn |-> "getTraceID", ctx |-> ctx,
                                  ret |-> getTraceID(ctx)])
    /\ UNCHANGED <<out, built, ctx0, mids0, slot0, runner, sys, ref>>

\* LoggerMiddleware(ctx, err, tip), which prints one line
LoggerCall ==
    /\ Len(calls) < MaxLogCalls
    /\ \E ctx \in LogCtxs, err \in {Nil, NewError(1)}, tip \in Tips :
          /\ calls' = Append(calls, [fn |-> "LoggerMiddleware", ctx |-> ctx,
                                     err |-> err, tip |-> tip,
                                     line |-> Len(out) + 1])
          /\ out' = Append(out, LoggerMiddleware(ctx, err, tip))
    /\ UNCHANGED <<built, ctx0, mids0, slot0, runner, sys, ref>>

NextLog == GetTraceIDCall \/ LoggerCall

SpecLog == InitLog /\ [][NextLog]_vars

(* ------------------- Run of src/internal/xerr -------------------------- *)

\* the number of calls issued to both variants
MaxVariantCalls == 2

\* a middleware of type Middleware is invoked with (ctx, ok, tip, err)
EventOk(n, ev, who, ctx, ok, tip, err) ==
    [n |-> n, ev |-> ev, who |-> who, ctx |-> ctx, err |-> err, tip |-> tip,
     ok |-> ok]

\* Run(ctx, err, tip, fn, mids...): the call, as the n-th call of the caller
Run(w, n, ctx, err, tip, fn, mids) ==
    [w EXCEPT !.frame = [pc |-> "check", n |-> n, ctx |-> ctx, err |-> err,
                         tip |-> tip, fn |-> fn, mids |-> mids,
                         e |-> Nil, i |-> 0, arg |-> Nil]]

\* if *err != nil { return }
Run_check(w) ==
    IF w.slot[w.frame.err] # Nil
    THEN [w EXCEPT !.frame = Idle]
    ELSE [w EXCEPT !.frame.pc = "fn"]

\* e := fn(ctx), the call
Run_fn_call(w) ==
    LET f == w.frame IN
    [w EXCEPT !.trace = Append(@, Event(f.n, "call", "fn", f.ctx, Nil, "")),
              !.frame.pc = "fn_ret"]

\* e := fn(ctx), the return
Run_fn_ret(w) ==
    LET f == w.frame
        r == FnResult(f.fn, f.n) IN
    [w EXCEPT !.trace = Append(@, Event(f.n, "ret", "fn", f.ctx, r, "")),
              !.frame.e = r,
              !.frame.i = 1,
              !.frame.pc = "mids"]

\* the middleware told ok whatever the operation returned
Run_mid_call_AlwaysOk(w) ==
    LET f == w.frame IN
    [w EXCEPT !.trace = Append(@, EventOk(f.n, "call", f.mids[f.i], f.ctx,
                                          TRUE, f.tip, f.e)),
              !.frame.arg = f.e,
              !.frame.pc = "mid_ret"]

\* the middleware told the opposite of e == nil
Run_mid_call_OkInverted(w) ==
    LET f == w.frame IN
    [w EXCEPT !.trace = Append(@, EventOk(f.n, "call", f.mids[f.i], f.ctx,
                                          f.e # Nil, f.tip, f.e)),
              !.frame.arg = f.e,
              !.frame.pc = "mid_ret"]

\* for _, mid := range mids { mid(ctx, e == nil, tip, e) }: the call of the
\* next one
Run_mid_call(w) ==
    LET f == w.frame IN
    [w EXCEPT !.trace = Append(@, EventOk(f.n, "call", f.mids[f.i], f.ctx,
                                          f.e = Nil, f.tip, f.e)),
              !.frame.arg = f.e,
              !.frame.pc = "mid_ret"]

\* the middleware runs and returns; the loop moves on
Run_mid_ret(w) ==
    LET f == w.frame
        a == MidBody(f.mids[f.i], f.arg, f.n) IN
    [w EXCEPT !.trace = Append(@, Event(f.n, "ret", f.mids[f.i], f.ctx, a, f.tip)),
              !.frame.e = AfterMid(f.e, a),
              !.frame.arg = Nil,
              !.frame.i = f.i + 1,
              !.frame.pc = "mids"]

\* if e != nil { *err = e }, and Run returns
Run_store(w) ==
    LET f == w.frame IN
    [w EXCEPT !.slot[f.err] = IF f.e # Nil THEN f.e ELSE @,
              !.frame = Idle]

\* the next step of the Run call in progress in w
StepRun(w) ==
    CASE w.frame.pc = "check"   -> Run_check(w)
      [] w.frame.pc = "fn"      -> Run_fn_call(w)
      [] w.frame.pc = "fn_ret"  -> Run_fn_ret(w)
      [] w.frame.pc = "mids"    -> IF w.frame.i <= Len(w.frame.mids)
                                   THEN Run_mid_call(w)
                                   ELSE Run_store(w)
      [] w.frame.pc = "mid_ret" -> Run_mid_ret(w)
      [] OTHER                  -> w

\* the same call issued to run of the package xerr, in sys, and to Run of
\* src/internal/xerr, in ref
VariantCall ==
    /\ ~Busy(sys) /\ ~Busy(ref)
    /\ Len(calls) < MaxVariantCalls
    /\ \E err \in Slots, tip \in Tips, fn \in Fns :
          /\ calls' = Append(calls, Call(err, tip, fn, sys.slot[err]))
          /\ sys' = run(sys, Len(calls) + 1, ctx0, err, tip, fn, mids0)
          /\ ref' = Run(ref, Len(calls) + 1, ctx0, err, tip, fn, mids0)
    /\ UNCHANGED <<built, out, ctx0, mids0, slot0, runner>>

\* both variants take the next step of their call
VariantStep ==
    /\ Busy(sys) \/ Busy(ref)
    /\ sys' = Step(sys)
    /\ ref' = StepRun(ref)
    /\ UNCHANGED <<built, out, ctx0, mids0, slot0, runner, calls>>

NextVariants == VariantCall \/ VariantStep

SpecVariants == Init /\ [][NextVariants]_vars

(* --------------- a middleware that itself calls run -------------------- *)

\* the number of calls, nested ones included, and the depth of the nesting
MaxNestCalls == 3
MaxDepth == 1

\* nestingMid is a middleware that may call run (Run) before it returns, with
\* the context and the label it was handed, on a slot, an operation and
\* middlewares of its choice
NestMidLists == { <<>>, <<"nestingMid">>, <<"nestingMid", "mid1">>,
                  <<"mid1", "nestingMid">>, <<"nestingMid", "nestingMid">> }

NestedMids == { <<>>, <<"mid1">>, <<"nestingMid">> }

\* the goroutine's stack: the frames of the calls suspended in a middleware
NestWorld(s) == [slot |-> s, frame |-> Idle, trace |-> <<>>, stack |-> <<>>]

\* a call of the caller (parent 0) or of the middleware of call parent
NestCall(err, tip, fn, pre, parent, mids) ==
    [err |-> err, tip |-> tip, fn |-> fn, pre |-> pre, parent |-> parent,
     mids |-> mids]

\* the frame of the call in progress is suspended: its middleware calls run
Push(w) == [w EXCEPT !.stack = <<w.frame>> \o @]

\* the nested call has returned: the suspended call is the one in progress
Pop(w) == [w EXCEPT !.frame = Head(w.stack), !.stack = Tail(w.stack)]

\* the middleware that is running in w is nestingMid
Nests(w) ==
    /\ w.frame.pc = "mid_ret"
    /\ w.frame.mids[w.frame.i] = "nestingMid"

\* sys executes run of the package xerr, ref executes Run of src/internal/xerr
InitNested ==
    /\ ctx0 \in Ctxs
    /\ mids0 \in NestMidLists
    /\ slot0 \in [Slots -> {Nil, firstErr}]
    /\ runner = NoRunner
    /\ built = NoRunner
    /\ out = <<>>
    /\ calls = <<>>
    /\ sys = NestWorld(slot0)
    /\ ref = NestWorld(slot0)

\* the caller calls run(ctx, &err, "operation 1", fn, mids...)
NestTopCall ==
    /\ ~Busy(sys) /\ sys.stack = <<>>
    /\ Len(calls) < MaxNestCalls
    /\ \E err \in Slots, fn \in Fns :
          LET tip == "operation 1" IN
          /\ calls' = Append(calls, NestCall(err, tip, fn, sys.slot[err], 0, mids0))
          /\ sys' = run(sys, Len(calls) + 1, ctx0, err, tip, fn, mids0)
          /\ ref' = Run(ref, Len(calls) + 1, ctx0, err, tip, fn, mids0)
    /\ UNCHANGED <<built, out, ctx0, mids0, slot0, runner>>

\* the next step of the call in progress (a middleware that is running
\* returns: nestingMid without having called run)
NestStep ==
    /\ Busy(sys)
    /\ sys' = Step(sys)
    /\ ref' = StepRun(ref)
    /\ UNCHANGED <<built, out, ctx0, mids0, slot0, runner, calls>>

\* nestingMid calls run(ctx, &err, tip, fn, mids...)
NestedCall ==
    /\ Nests(sys)
    /\ Len(sys.stack) < MaxDepth
    /\ Len(calls) < MaxNestCalls
    /\ \E err \in Slots, fn \in Fns, mids \in NestedMids :
          /\ calls' = Append(calls, NestCall(err, sys.frame.tip, fn,
                                             sys.slot[err], sys.frame.n, mids))
          /\ sys' = run(Push(sys), Len(calls) + 1, sys.frame.ctx, err,
                        sys.frame.tip, fn, mids)
          /\ ref' = Run(Push(ref), Len(calls) + 1, ref.frame.ctx, err,
                        ref.frame.tip, fn, mids)
    /\ UNCHANGED <<built, out, ctx0, mids0, slot0, runner>>

\* the nested call has returned, and nestingMid returns
NestedReturn ==
    /\ ~Busy(sys) /\ sys.stack # <<>>
    /\ sys' = run_mid_ret(Pop(sys))
    /\ ref' = Run_mid_ret(Pop(ref))
    /\ UNCHANGED <<built, out, ctx0, mids0, slot0, runner, calls>>

NextNested == NestTopCall \/ NestStep \/ NestedCall \/ NestedReturn

SpecNested == InitNested /\ [][NextNested]_vars

(* ---------------------------- observations ----------------------------- *)

\* the positions of the trace of w that belong to the n-th call
EventsOf(w, n) == { i \in 1..Len(w.trace) : w.trace[i].n = n }

\* the operation of the n-th call was invoked
Executed(w, n) ==
    \E i \in EventsOf(w, n) : w.trace[i].who = "fn" /\ w.trace[i].ev = "call"

\* the values the operation of the n-th call returned (none, or one)
Returned(w, n) ==
    { w.trace[i].err : i \in { j \in EventsOf(w, n) :
                                 w.trace[j].who = "fn" /\ w.trace[j].ev = "ret" } }

\* the positions of the trace at which a middleware was invoked
Notified(w) ==
    { i \in 1..Len(w.trace) : w.trace[i].who # "fn" /\ w.trace[i].ev = "call" }

\* no run call is in progress in w
Quiet(w) == w.frame.pc = "idle"

\* the calls issued on slot s, in order
CallsOn(s) == { n \in 1..Len(calls) : calls[n].err = s }

(* ----------------------------- properties ------------------------------ *)

\* the first call on slot s whose operation returns an error is the k-th call
FirstFailure(s, k) ==
    /\ k \in CallsOn(s)
    /\ FnResult(calls[k].fn, k) # Nil
    /\ \A j \in CallsOn(s) : j < k => FnResult(calls[j].fn, j) = Nil

\* C1: after any sequence of calls on an initially empty slot, where the k-th
\* call is the first whose operation returns an error, exactly the operations
\* of the calls on that slot up to the k-th were executed, none of the later
\* ones, and the slot holds the error the k-th operation returned.
C1_FirstFailureWins ==
    Quiet(sys) =>
        \A s \in Slots : \A k \in 1..Len(calls) :
            (slot0[s] = Nil /\ FirstFailure(s, k)) =>
                /\ \A j \in CallsOn(s) : Executed(sys, j) <=> j <= k
                /\ Returned(sys, k) = {sys.slot[s]}

\* a succeeding call, then a failing one, then a third call, all on one
\* initially empty slot, have completed
C1_Witness ==
    /\ Quiet(sys)
    /\ Len(calls) = 3
    /\ \E s \in Slots :
          /\ slot0[s] = Nil
          /\ CallsOn(s) = {1, 2, 3}
          /\ FirstFailure(s, 2)
          /\ calls[3].fn = "fail"

\* C2: a slot that has become non-empty keeps the value it holds: no step
\* clears or replaces a held error, so the only change run makes to a slot
\* is from empty to holding an error.
C2_HeldErrorKept ==
    [][\A s \in Slots : sys.slot[s] # Nil => sys'.slot[s] = sys.slot[s]]_vars

\* run filled an initially empty slot, and a later failing call on the same
\* slot has completed
C2_Witness ==
    /\ Quiet(sys)
    /\ \E s \in Slots : \E k, j \in CallsOn(s) :
          /\ slot0[s] = Nil
          /\ FirstFailure(s, k)
          /\ sys.slot[s] = NewError(k)
          /\ j > k
          /\ calls[j].fn = "fail"

\* C3: on a slot that held an error before the first call, no call executes
\* its operation, and the slot holds the original error throughout.
C3_PrePopulatedSkips ==
    \A s \in Slots : slot0[s] # Nil =>
        /\ sys.slot[s] = slot0[s]
        /\ \A n \in CallsOn(s) : ~Executed(sys, n)

\* two calls on a pre-populated slot have completed, one of them with an
\* operation that would have returned another error
C3_Witness ==
    /\ Quiet(sys)
    /\ \E s \in Slots : \E n, m \in CallsOn(s) :
          /\ slot0[s] = firstErr
          /\ n # m
          /\ calls[n].fn = "fail"

\* C4: when a call made on an empty slot has returned and its operation
\* returned an error e, the slot holds exactly e.
C4_ErrorStoredUnmodified ==
    (Quiet(sys) /\ Len(calls) > 0) =>
        LET n == Len(calls) IN
        \A e \in Returned(sys, n) :
            (calls[n].pre = Nil /\ e # Nil) => sys.slot[calls[n].err] = e

\* a failing call on an empty slot has just returned, with middlewares
C4_Witness ==
    /\ Quiet(sys)
    /\ Len(calls) > 0
    /\ calls[Len(calls)].pre = Nil
    /\ Returned(sys, Len(calls)) = {NewError(Len(calls))}
    /\ Len(mids0) > 0

\* the number of times the middleware m was invoked for the n-th call
Invocations(w, n, m) ==
    Cardinality({ i \in EventsOf(w, n) :
                    w.trace[i].who = m /\ w.trace[i].ev = "call" })

\* the number of positions of the list mids that hold the middleware m
Multiplicity(mids, m) == Cardinality({ p \in 1..Len(mids) : mids[p] = m })

\* C5: once the calls have returned, every middleware of the list was invoked
\* exactly once for each executed operation and never for a skipped one; the
\* number of notifications is the number of executed operations times the
\* number of middlewares.
C5_OncePerExecuted ==
    Quiet(sys) =>
        /\ \A n \in 1..Len(calls) : \A m \in MidNames :
              Invocations(sys, n, m) =
                  IF Executed(sys, n) THEN Multiplicity(mids0, m) ELSE 0
        /\ Cardinality(Notified(sys)) =
              Cardinality({ n \in 1..Len(calls) : Executed(sys, n) }) * Len(mids0)

\* with two middlewares: an executed success, an executed failure and a
\* skipped call on one slot
C5_Witness ==
    /\ Quiet(sys)
    /\ Len(mids0) = 2
    /\ Len(calls) = 3
    /\ Executed(sys, 1) /\ Executed(sys, 2) /\ ~Executed(sys, 3)
    /\ Cardinality(Notified(sys)) = 4

\* the calls and returns of one executed run call with the middlewares mids,
\* in the order the contract gives: the operation, then each middleware
RECURSIVE Order(_)
Order(mids) ==
    IF mids = <<>>
    THEN << <<"fn", "call">>, <<"fn", "ret">> >>
    ELSE Order(SubSeq(mids, 1, Len(mids) - 1))
            \o << <<mids[Len(mids)], "call">>, <<mids[Len(mids)], "ret">> >>

\* the calls and returns of the n-th call, in the order they happened
Happened(tr, n) ==
    LET own == SelectSeq(tr, LAMBDA ev : ev.n = n) IN
    [i \in 1..Len(own) |-> <<own[i].who, own[i].ev>>]

\* C6: within one call the operation has returned before the first middleware
\* is invoked, and the middlewares are invoked one at a time in the order
\* supplied, each returning before the next is invoked.
C6_OperationThenObserversInOrder ==
    \A n \in 1..Len(calls) :
        LET h == Happened(sys.trace, n)
            o == Order(mids0) IN
        /\ Len(h) <= Len(o)
        /\ h = SubSeq(o, 1, Len(h))
        /\ (Executed(sys, n) /\ (n < Len(calls) \/ Quiet(sys))) => h = o

\* a call with two different middlewares has returned
C6_Witness ==
    /\ Quiet(sys)
    /\ Len(calls) > 0
    /\ Len(mids0) = 2
    /\ mids0[1] # mids0[2]
    /\ Len(Happened(sys.trace, Len(calls))) = 6

\* C7: every middleware invoked by a call receives what the operation of that
\* call returned (nil or its error) and the label passed to that call.
C7_ObserverReceivesResultAndLabel ==
    LET ret == [n \in 1..Len(calls) |-> Returned(sys, n)] IN
    \A i \in Notified(sys) :
        LET ev == sys.trace[i] IN
        /\ ret[ev.n] = {ev.err}
        /\ ev.tip = calls[ev.n].tip

\* middlewares were notified of a success under one label and of a failure
\* under the other
C7_Witness ==
    \E i, j \in Notified(sys) :
        /\ sys.trace[i].err = Nil
        /\ sys.trace[j].err # Nil
        /\ sys.trace[i].tip # sys.trace[j].tip

\* the positions of the trace at which a middleware of the n-th call returned
\* with its parameter changed from what it was handed
Reassigned(w, n) ==
    LET ret == Returned(w, n) IN
    { i \in EventsOf(w, n) :
        /\ w.trace[i].ev = "ret"
        /\ w.trace[i].who # "fn"
        /\ ret # {w.trace[i].err} }

\* C8: when a middleware of a call has changed the error it received, every
\* middleware invoked after it in that call still receives what the operation
\* returned, and once the call has returned the slot holds what the operation
\* returned, or is as it was when the operation returned nil.
C8_ObserverCannotModify ==
    \A n \in 1..Len(calls) :
        LET ret == Returned(sys, n) IN
        \A i \in Reassigned(sys, n) :
            /\ \A j \in EventsOf(sys, n) :
                  (j > i /\ j \in Notified(sys)) => ret = {sys.trace[j].err}
            /\ (n = Len(calls) /\ Quiet(sys)) =>
                  \A e \in ret :
                      sys.slot[calls[n].err] = IF e # Nil THEN e ELSE calls[n].pre

\* maliciousMid changed its parameter in a call whose operation returned nil
\* and in one whose operation failed, another middleware followed it, and the
\* calls have returned
C8_Witness ==
    /\ Quiet(sys)
    /\ \E n, m \in 1..Len(calls) :
          /\ Reassigned(sys, n) # {} /\ Returned(sys, n) = {Nil}
          /\ Reassigned(sys, m) # {} /\ Returned(sys, m) = {NewError(m)}
          /\ m = Len(calls)
          /\ \E j \in Notified(sys) :
                sys.trace[j].n = m /\ sys.trace[j].who = "mid1"

\* the labels under which the middlewares of w were notified in the n-th call
LabelsSeen(w, n) == { w.trace[i].tip : i \in { j \in Notified(w) : w.trace[j].n = n } }

\* C9: two executions given the same calls but for the labels leave every
\* slot with the same value and execute the same operations: the label has
\* no part in the error stored or in whether the operation runs.
C9_LabelIndependent ==
    (Quiet(sys) /\ Quiet(ref)) =>
        /\ sys.slot = ref.slot
        /\ \A n \in 1..Len(calls) : Executed(sys, n) <=> Executed(ref, n)

\* a failing call on an empty slot was made under different labels in the two
\* executions, after a succeeding one, and has returned in both
C9_Witness ==
    /\ Quiet(sys) /\ Quiet(ref)
    /\ \E n \in 1..Len(calls) :
          /\ n > 1
          /\ calls[n].pre = Nil
          /\ sys.slot[calls[n].err] = NewError(n)
          /\ LabelsSeen(sys, n) # {}
          /\ LabelsSeen(sys, n) # LabelsSeen(ref, n)

\* C10: calls made through the runner NewGlobalError(ctx, mids...) returned
\* and the same calls made as run(ctx, slot, tip, fn, mids...) execute the
\* same operations, notify the middlewares the same way in the same order,
\* and leave each slot with the same value.
C10_RunnerEquivalentToRun ==
    (Quiet(sys) /\ Quiet(ref)) =>
        /\ sys.slot = ref.slot
        /\ sys.trace = ref.trace

\* the runner was called on two different slots, one call failing, with
\* middlewares notified, and the calls have returned
C10_Witness ==
    /\ Quiet(sys) /\ Quiet(ref)
    /\ runner.bound
    /\ Len(calls) = 2
    /\ calls[1].err # calls[2].err
    /\ calls[1].fn = "fail"
    /\ Executed(sys, 1) /\ Executed(sys, 2)
    /\ Cardinality(Notified(sys)) = 4

\* the contexts handed to the operation and the middlewares of the n-th call
ContextsSeen(w, n) == { w.trace[i].ctx : i \in EventsOf(w, n) }

\* C11: every invocation of the runner uses the context and the middleware
\* list, in its order, that NewGlobalError was given, whatever the caller did
\* since: earlier invocations, failures, assigning to its context variable or
\* to the elements of the list it passed.
C11_BoundAtConstruction ==
    \A n \in 1..Len(calls) :
        LET h == Happened(sys.trace, n)
            o == Order(built.mids) IN
        /\ ContextsSeen(sys, n) \subseteq {built.ctx}
        /\ Len(h) <= Len(o)
        /\ h = SubSeq(o, 1, Len(h))

\* the n-th call has returned
Returns(w, n) == n < Len(calls) \/ (n = Len(calls) /\ Quiet(w))

\* C12: the runner keeps no failure state: a call through it runs its
\* operation and notifies the middlewares exactly when the slot passed to
\* that call was empty, whatever the runner recorded in other slots before.
C12_RunnerKeepsNoFailureState ==
    \A n \in 1..Len(calls) :
        Returns(sys, n) =>
            /\ Executed(sys, n) <=> calls[n].pre = Nil
            /\ calls[n].pre = Nil => Happened(sys.trace, n) = Order(runner.mids)

\* the runner recorded an error in one slot, then ran a call on the other,
\* empty slot and notified its middlewares, then skipped a call on the first
C12_Witness ==
    /\ Quiet(sys)
    /\ Len(calls) = 3
    /\ Len(runner.mids) > 0
    /\ calls[1].err # calls[2].err
    /\ slot0[calls[1].err] = Nil
    /\ sys.slot[calls[1].err] = NewError(1)
    /\ calls[2].pre = Nil
    /\ Executed(sys, 2)
    /\ \E i \in Notified(sys) : sys.trace[i].n = 2
    /\ calls[3].err = calls[1].err
    /\ ~Executed(sys, 3)

\* C13: the operation and every middleware of a call receive the context the
\* call was given: the argument of run, and for the runner the context given
\* to NewGlobalError, not the caller's present one.
C13_ContextPassedUnaltered ==
    \A n \in 1..Len(calls) : ContextsSeen(sys, n) \subseteq {calls[n].ctx}

\* after the caller changed its context, a call of run and a call of the
\* runner have returned, each having run its operation and a middleware
C13_Witness ==
    /\ Quiet(sys)
    /\ ctx0 # built.ctx
    /\ \E n, m \in 1..Len(calls) :
          /\ calls[n].via = "run" /\ calls[n].ctx = ctx0
          /\ calls[m].via = "runner" /\ calls[m].ctx # ctx0
          /\ Executed(sys, n) /\ Executed(sys, m)
          /\ \E i, j \in Notified(sys) : sys.trace[i].n = n /\ sys.trace[j].n = m

\* C14: a run call that has returned did exactly one of two things.  Either
\* it skipped: neither the operation nor any middleware was invoked and the
\* slot is as it was.  Or it executed and recorded: the operation was invoked
\* once, then every middleware once, and the slot holds the operation's error
\* if it returned one and is as it was otherwise.  It skipped exactly when
\* the slot was non-empty at the call.
C14_SkipOrExecuteAndRecord ==
    (Quiet(sys) /\ Len(calls) > 0) =>
        LET n == Len(calls)
            c == calls[n]
            h == Happened(sys.trace, n)
            skipped == h = <<>> /\ sys.slot[c.err] = c.pre
            recorded ==
                /\ h = Order(mids0)
                /\ \E e \in Returned(sys, n) :
                      sys.slot[c.err] = IF e # Nil THEN e ELSE c.pre
        IN  /\ skipped \/ recorded
            /\ ~(skipped /\ recorded)
            /\ skipped <=> c.pre # Nil

\* with middlewares: a call that executed and recorded an error, then a call
\* on the same slot that skipped
C14_Witness ==
    /\ Quiet(sys)
    /\ Len(calls) = 2
    /\ Len(mids0) > 0
    /\ calls[1].err = calls[2].err
    /\ Happened(sys.trace, 1) = Order(mids0)
    /\ sys.slot[calls[1].err] = NewError(1)
    /\ Happened(sys.trace, 2) = <<>>

\* the call on slot s that follows the n-th call is the m-th
NextOn(s, n, m) ==
    /\ n \in CallsOn(s) /\ m \in CallsOn(s)
    /\ n < m
    /\ \A k \in CallsOn(s) : ~(n < k /\ k < m)

\* the n-th call was made on an empty slot and its operation returned nil
Succeeded(w, n) == calls[n].pre = Nil /\ Returned(w, n) = {Nil}

\* C15: a call on an empty slot whose operation succeeded leaves the slot
\* empty when it returns, whatever the middlewares, and the next call on that
\* slot is not skipped.
C15_SuccessLeavesSlotEmpty ==
    /\ (Quiet(sys) /\ Len(calls) > 0 /\ Succeeded(sys, Len(calls))) =>
          sys.slot[calls[Len(calls)].err] = Nil
    /\ \A s \in Slots : \A n, m \in CallsOn(s) :
          (NextOn(s, n, m) /\ Succeeded(sys, n) /\ Returns(sys, m)) =>
              Executed(sys, m)

\* a succeeding call observed by maliciousMid, then a call on the other slot,
\* then a second call on the first slot, which has returned
C15_Witness ==
    /\ Quiet(sys)
    /\ Len(calls) = 3
    /\ Len(mids0) > 0
    /\ mids0[1] = "maliciousMid"
    /\ Succeeded(sys, 1)
    /\ calls[2].err # calls[1].err
    /\ NextOn(calls[1].err, 1, 3)
    /\ Executed(sys, 3)
    /\ sys.slot[calls[1].err] = Nil

\* the calls whose operation was invoked in w
ExecutedCalls(w) == { n \in 1..Len(calls) : Executed(w, n) }

\* C16: the same calls made without middlewares return, notify nobody, and
\* leave every slot with the value, and execute the operations, that they
\* leave and execute with any middleware list.
C16_OutcomeIndependentOfObservers ==
    /\ Quiet(sys) => Quiet(ref)
    /\ Notified(ref) = {}
    /\ (Quiet(sys) /\ Quiet(ref)) =>
          /\ sys.slot = ref.slot
          /\ ExecutedCalls(sys) = ExecutedCalls(ref)

\* with two middlewares in sys and none in ref, a failing call on an empty
\* slot and a second call on that slot have returned in both executions
C16_Witness ==
    /\ Quiet(sys) /\ Quiet(ref)
    /\ Len(mids0) = 2
    /\ Len(calls) = 2
    /\ calls[1].err = calls[2].err
    /\ ref.slot[calls[1].err] = NewError(1)
    /\ ExecutedCalls(ref) = {1}
    /\ Cardinality(Notified(sys)) = 2

\* the call in progress in w is about to store the error e in slot s
AboutToStore(w, s, e) ==
    /\ w.frame.pc = "mids"
    /\ w.frame.i > Len(w.frame.mids)
    /\ w.frame.err = s
    /\ w.frame.e = e
    /\ e # Nil

\* C17: two run calls interleaved on one slot lose the guarantees of the
\* sequential use.  A slot that holds an error can be overwritten, and what
\* overwrites it is the error of the other call, stored by the last step of
\* that call: no step clears the slot or stores anything else.  The state
\* C17_Witness shows that it happens.
C17_OverwrittenByTheOtherCall ==
    [][\A s \in Slots :
          (sys.slot[s] # Nil /\ sys'.slot[s] # sys.slot[s]) =>
              \/ AboutToStore(sys, s, sys'.slot[s])
              \/ AboutToStore(ref, s, sys'.slot[s])]_vars

\* both calls have returned, both operations were executed although both
\* failed, and both stored their error: the one the slot held first was
\* overwritten by the other
C17_Witness ==
    /\ Quiet(sys) /\ Quiet(ref)
    /\ Len(calls) = 2
    /\ Executed(sys, 1) /\ Executed(ref, 2)
    /\ Returned(sys, 1) = {NewError(1)}
    /\ Returned(ref, 2) = {NewError(2)}
    /\ sys.slot[calls[1].err] = NewError(1)

\* a step leaves slot s as it was, or it is the return of the call in
\* progress on s, and s then holds the error the operation of that call returned
UnchangedOrOperationError(s) ==
    \/ sys'.slot[s] = sys.slot[s]
    \/ /\ Busy(sys) /\ Quiet(sys')
       /\ sys.frame.err = s
       /\ sys'.slot[s] \in Returned(sys, sys.frame.n) \ {Nil}

\* every value slot s holds was placed there by the caller before the first
\* call or was returned by the operation of a call on s
FromCallerOrOperation(s) ==
    sys.slot[s] \in {slot0[s]} \cup UNION { Returned(sys, n) : n \in CallsOn(s) }

\* C18: run cannot fail and always completes.  Every call that is in progress
\* returns (the operation and the middlewares return); a call leaves every
\* slot unchanged until it returns and returns with its slot unchanged or
\* holding the error of its operation; and every value a slot ever holds is
\* the caller's initial value or a value returned by an operation.
C18_RunCannotFail ==
    /\ [][\A s \in Slots : UnchangedOrOperationError(s)]_vars
    /\ [](\A s \in Slots : FromCallerOrOperation(s))
    /\ (Busy(sys) ~> Quiet(sys))

\* two calls with middlewares have returned, one with its slot unchanged
\* and one with its slot holding the error of its operation
C18_Witness ==
    /\ Quiet(sys)
    /\ Len(calls) = 2
    /\ Len(mids0) > 0
    /\ Returned(sys, 1) = {Nil}
    /\ sys.slot[calls[1].err] = calls[1].pre
    /\ calls[2].pre = Nil
    /\ sys.slot[calls[2].err] = NewError(2)

\* the pairs of ctx stored under the key "trace_id"
TraceBindings(ctx) == { i \in 1..Len(ctx) : ctx[i].key = TraceKey }

\* the value the context holds under "trace_id": that of the innermost pair
TraceValue(ctx) ==
    ctx[CHOOSE i \in TraceBindings(ctx) : \A j \in TraceBindings(ctx) : j <= i].val

\* the trace identifier of a context: the value under "trace_id" when there
\* is one and it is a string, "unknown" otherwise
TraceIDOf(ctx) ==
    IF TraceBindings(ctx) # {} /\ TraceValue(ctx).type = "string"
    THEN TraceValue(ctx).val
    ELSE "unknown"

\* C19: getTraceID returns the value stored under "trace_id" when it is
\* present and is a string, and "unknown" when the key is absent or its value
\* is not a string; the line LoggerMiddleware prints carries this identifier
\* between the brackets, on success and on failure.
C19_TraceIDOrUnknown ==
    \A k \in 1..Len(calls) :
        IF calls[k].fn = "getTraceID"
        THEN calls[k].ret = TraceIDOf(calls[k].ctx)
        ELSE LET line == out[calls[k].line] IN
             /\ line[1] = (IF calls[k].err = Nil THEN "+[" ELSE "-[")
             /\ line[2] = TraceIDOf(calls[k].ctx)
             /\ line[3] = "] "

\* getTraceID was called on a context whose "trace_id" is not a string, and
\* LoggerMiddleware printed a failure line for a context whose "trace_id" is
\* a string
C19_Witness ==
    /\ Len(calls) = 2
    /\ calls[1].fn = "getTraceID"
    /\ TraceBindings(calls[1].ctx) # {}
    /\ calls[1].ret = "unknown"
    /\ calls[2].fn = "LoggerMiddleware"
    /\ calls[2].err # Nil
    /\ out[1][2] = "abc-123"

\* the event is the invocation of a middleware
IsNotification(ev) == ev.who # "fn" /\ ev.ev = "call"

\* the notifications of w, in order
Notifications(w) == SelectSeq(w.trace, IsNotification)

\* what a notification of Run carries besides the ok flag
WithoutOk(ev) == Event(ev.n, ev.ev, ev.who, ev.ctx, ev.err, ev.tip)

\* C20: fed the same sequence of calls, run of the package xerr and Run of
\* src/internal/xerr execute the same operations and hold the same slot
\* values, and deliver the same notifications in the same order: each
\* notification of Run carries the context, the error and the label of the
\* notification of run, and an ok flag that is true exactly when the error
\* is nil.
C20_VariantsAgree ==
    LET a == Notifications(sys)
        b == Notifications(ref) IN
    /\ sys.slot = ref.slot
    /\ ExecutedCalls(sys) = ExecutedCalls(ref)
    /\ \A n \in 1..Len(calls) : Returned(sys, n) = Returned(ref, n)
    /\ Len(a) = Len(b)
    /\ \A i \in 1..Len(a) :
          /\ WithoutOk(b[i]) = a[i]
          /\ b[i].ok = (a[i].err = Nil)

\* both variants have returned from two calls, the first succeeding and the
\* second failing, with middlewares notified of both
C20_Witness ==
    /\ Quiet(sys) /\ Quiet(ref)
    /\ Len(calls) = 2
    /\ Len(mids0) > 0
    /\ Returned(ref, 1) = {Nil}
    /\ Returned(ref, 2) = {NewError(2)}
    /\ ref.slot[calls[2].err] = NewError(2)
    /\ \E i, j \in 1..Len(Notifications(ref)) :
          /\ Notifications(ref)[i].ok
          /\ ~Notifications(ref)[j].ok

\* C21: in the variant whose middlewares take (ctx, ok, tip, err), every
\* middleware is invoked with ok true exactly when err is nil: never with ok
\* true and an error, never with ok false and no error.
C21_OkExactlyWhenNoError ==
    \A i \in Notified(ref) :
        /\ ref.trace[i].ok => ref.trace[i].err = Nil
        /\ ~ref.trace[i].ok => ref.trace[i].err # Nil

\* Run has notified a middleware of a success and a middleware of a failure
C21_Witness ==
    /\ \E i \in Notified(ref) : ref.trace[i].ok /\ ref.trace[i].err = Nil
    /\ \E j \in Notified(ref) : ~ref.trace[j].ok /\ ref.trace[j].err = NewError(ref.trace[j].n)

\* the frames of w: that of the call in progress and the suspended ones
Frames(w) ==
    { w.frame } \cup { w.stack[k] : k \in 1..Len(w.stack) }

\* the call of frame f has passed the test of the slot and has not returned
PastCheck(f) == f.pc \in { "fn", "fn_ret", "mids", "mid_ret" }

\* no call on the slot of frame f was made after the call of f: no
\* middleware of that call has called run on its slot
NoNestedCallOn(f) == \A m \in CallsOn(f.err) : m <= f.n

\* C22 as stated: from the test of the slot to the final step of the call,
\* so whenever a middleware is invoked, the slot of the call is empty.
C22_SlotEmptyUntilFinalStep ==
    \A w \in {sys, ref} : \A f \in Frames(w) :
        PastCheck(f) => w.slot[f.err] = Nil

\* C22: provided no middleware of the call has itself called run on the
\* slot of the call, the slot is empty from the test of the slot to the
\* final step of the call, so whenever a middleware is invoked, also for an
\* operation that failed.
C22_SlotEmptyUnlessNestedCall ==
    \A w \in {sys, ref} : \A f \in Frames(w) :
        (PastCheck(f) /\ NoNestedCallOn(f)) => w.slot[f.err] = Nil

\* the second middleware of a call whose operation failed has been invoked,
\* the first one having called run on another slot, and the slot is empty
C22_Witness ==
    /\ sys.frame.pc = "mid_ret"
    /\ sys.frame.i = 2
    /\ sys.frame.e # Nil
    /\ sys.slot[sys.frame.err] = Nil
    /\ NoNestedCallOn(sys.frame)
    /\ \E m \in 1..Len(calls) : calls[m].parent = sys.frame.n

\* the n-th call has been made and has returned
HasReturned(w, n) == \A f \in Frames(w) : f.n # n

\* the n-th call is past the test of the slot and the call of its operation,
\* if it makes one
PastOperationCall(w, n) ==
    \A f \in Frames(w) : f.n = n => f.pc \notin { "check", "fn" }

\* the m-th call was made by a middleware notified of a failing operation,
\* on the slot of the call that notified it
ReentrantOnFailure(w, m) ==
    /\ calls[m].parent > 0
    /\ calls[m].err = calls[calls[m].parent].err
    /\ Returned(w, calls[m].parent) = {NewError(calls[m].parent)}

\* the m-th call is not short-circuited: its operation executes and, when it
\* has returned, each of its middlewares was notified
NotShortCircuited(w, m) ==
    /\ PastOperationCall(w, m) => Executed(w, m)
    /\ HasReturned(w, m) =>
          \A k \in 1..Len(calls[m].mids) :
              Invocations(w, m, calls[m].mids[k]) = Multiplicity(calls[m].mids, calls[m].mids[k])

\* the calls the n-th call is nested in
RECURSIVE Enclosing(_)
Enclosing(n) ==
    IF calls[n].parent = 0
    THEN {}
    ELSE {calls[n].parent} \cup Enclosing(calls[n].parent)

\* when the call that notified the middleware has returned (and before a
\* call it is itself nested in returns), the slot holds the error of its
\* operation
OuterErrorHeld(w, m) ==
    LET p == calls[m].parent IN
    (HasReturned(w, p) /\ \A a \in Enclosing(p) : ~HasReturned(w, a)) =>
        w.slot[calls[m].err] = NewError(p)

\* C23 as stated: a call of run made by a middleware notified of a failing
\* operation, on the same slot, is not short-circuited, and when the outer
\* call has returned the slot holds the error of the outer operation.
C23_NestedRunsOuterErrorWins ==
    \A w \in {sys, ref} : \A m \in 1..Len(calls) :
        ReentrantOnFailure(w, m) =>
            /\ NotShortCircuited(w, m)
            /\ OuterErrorHeld(w, m)

\* C23: a call of run made by a middleware notified of a failing operation,
\* on the same slot, is not short-circuited provided the slot is still empty
\* when the call is made (no earlier nested call has stored an error in it);
\* in every case, when the outer call has returned the slot holds the error
\* of the outer operation, which replaces an error a nested call stored.
C23_NestedRunsWhileSlotEmpty ==
    \A w \in {sys, ref} : \A m \in 1..Len(calls) :
        ReentrantOnFailure(w, m) =>
            /\ calls[m].pre = Nil => NotShortCircuited(w, m)
            /\ OuterErrorHeld(w, m)

\* the first call failed and has returned; its middleware called run on the
\* same slot with a failing operation and a middleware, which was notified;
\* the slot holds the error of the first call, not that of the nested one
C23_Witness ==
    /\ Quiet(sys) /\ sys.stack = <<>>
    /\ Len(calls) >= 2
    /\ calls[2].parent = 1
    /\ calls[2].err = calls[1].err
    /\ calls[2].mids = <<"mid1">>
    /\ Returned(sys, 1) = {NewError(1)}
    /\ Returned(sys, 2) = {NewError(2)}
    /\ Invocations(sys, 2, "mid1") = 1
    /\ sys.slot[calls[1].err] = NewError(1)

====
